---- MODULE Spec2Model ----
(***************************************************************************)
(* dendro: Needleman-Wunsch scoring (needleman), the BLOSUM table lookup   *)
(* (genome-kit) and the Kruskal-style agglomerative clusterer with its     *)
(* union-find and cluster manager (kruskal).                               *)
(***************************************************************************)
EXTENDS Integers, Sequences, FiniteSets, Bags, TLC

VARIABLES
  pc,           \* position of the operation under study
  species,      \* input of cluster(): sequence of [name, genome]
  clusters,     \* ClusterManager.clusters, indexed from 0
  cluster_map,  \* ClusterManager.cluster_map, indexed from 0
  parent,       \* UnionFind.parent, indexed from 0
  heap,         \* the BinaryHeap<Edge> of cluster(), as the set of its edges
  result,       \* the Option<Cluster> returned by cluster()
  last,         \* the latest UnionFind call: its arguments, result and pre-state
  linked,       \* pairs joined by a chain of the union calls made so far
  seq_a,        \* first sequence handed to the aligner
  seq_b,        \* second sequence handed to the aligner
  gap_penalty,  \* gap penalty handed to align_dp_table
  score,        \* value returned by the aligner
  next_j,       \* compute_edges: for each task i, the next j of its inner iterator
  edges         \* compute_edges: the edges produced so far, as a bag

vars == <<pc, species, clusters, cluster_map, parent, heap, result,
          last, linked, seq_a, seq_b, gap_penalty, score, next_j, edges>>

\* ---------------------------------------------------------------- bounds
MaxSpecies == 4
MaxSeqLen == 2
UFSize == 4

\* ------------------------------------------------------------- alphabet
ROWS == 24
COLS == 24

AminoAcid ==
  <<"Alanine", "Arginine", "Asparagine", "AsparticAcid", "Cysteine",
    "Glutamine", "GlutamicAcid", "Glycine", "Histidine", "Isoleucine",
    "Leucine", "Lysine", "Methionine", "Phenylalanine", "Proline", "Serine",
    "Threonine", "Tryptophan", "Tyrosine", "Valine", "Asx", "Glx", "Unknown",
    "Stop">>

acid_to_index(acid) == (CHOOSE k \in 1..Len(AminoAcid) : AminoAcid[k] = acid) - 1

\* The BLOSUM62 table in NCBI order (A R N D C Q E G H I L K M F P S T W Y V B Z X *).
BLOSUM62 == <<
     4, -1, -2, -2,  0, -1, -1,  0, -2, -1, -1, -1, -1, -2, -1,  1,  0, -3, -2,  0, -2, -1,  0, -4,
    -1,  5,  0, -2, -3,  1,  0, -2,  0, -3, -2,  2, -1, -3, -2, -1, -1, -3, -2, -3, -1,  0, -1, -4,
    -2,  0,  6,  1, -3,  0,  0,  0,  1, -3, -3,  0, -2, -3, -2,  1,  0, -4, -2, -3,  3,  0, -1, -4,
    -2, -2,  1,  6, -3,  0,  2, -1, -1, -3, -4, -1, -3, -3, -1,  0, -1, -4, -3, -3,  4,  1, -1, -4,
     0, -3, -3, -3,  9, -3, -4, -3, -3, -1, -1, -3, -1, -2, -3, -1, -1, -2, -2, -1, -3, -3, -2, -4,
    -1,  1,  0,  0, -3,  5,  2, -2,  0, -3, -2,  1,  0, -3, -1,  0, -1, -2, -1, -2,  0,  3, -1, -4,
    -1,  0,  0,  2, -4,  2,  5, -2,  0, -3, -3,  1, -2, -3, -1,  0, -1, -3, -2, -2,  1,  4, -1, -4,
     0, -2,  0, -1, -3, -2, -2,  6, -2, -4, -4, -2, -3, -3, -2,  0, -2, -2, -3, -3, -1, -2, -1, -4,
    -2,  0,  1, -1, -3,  0,  0, -2,  8, -3, -3, -1, -2, -1, -2, -1, -2, -2,  2, -3,  0,  0, -1, -4,
    -1, -3, -3, -3, -1, -3, -3, -4, -3,  4,  2, -3,  1,  0, -3, -2, -1, -3, -1,  3, -3, -3, -1, -4,
    -1, -2, -3, -4, -1, -2, -3, -4, -3,  2,  4, -2,  2,  0, -3, -2, -1, -2, -1,  1, -4, -3, -1, -4,
    -1,  2,  0, -1, -3,  1,  1, -2, -1, -3, -2,  5, -1, -3, -1,  0, -1, -3, -2, -2,  0,  1, -1, -4,
    -1, -1, -2, -3, -1,  0, -2, -3, -2,  1,  2, -1,  5,  0, -2, -1, -1, -1, -1,  1, -3, -1, -1, -4,
    -2, -3, -3, -3, -2, -3, -3, -3, -1,  0,  0, -3,  0,  6, -4, -2, -2,  1,  3, -1, -3, -3, -1, -4,
    -1, -2, -2, -1, -3, -1, -1, -2, -2, -3, -3, -1, -2, -4,  7, -1, -1, -4, -3, -2, -2, -1, -2, -4,
     1, -1,  1,  0, -1,  0,  0,  0, -1, -2, -2,  0, -1, -2, -1,  4,  1, -3, -2, -2,  0,  0,  0, -4,
     0, -1,  0, -1, -1, -1, -1, -2, -2, -1, -1, -1, -1, -2, -1,  1,  5, -2, -2,  0, -1, -1,  0, -4,
    -3, -3, -4, -4, -2, -2, -3, -2, -2, -3, -2, -3, -1,  1, -4, -3, -2, 11,  2, -3, -4, -3, -2, -4,
    -2, -2, -2, -3, -2, -1, -2, -3,  2, -1, -1, -2, -1,  3, -3, -2, -2,  2,  7, -1, -3, -2, -1, -4,
     0, -3, -3, -3, -1, -2, -2, -3, -3,  3,  1, -2,  1, -1, -2, -2,  0, -3, -1,  4, -3, -2, -1, -4,
    -2, -1,  3,  4, -3,  0,  1, -1,  0, -3, -4,  0, -3, -3, -2,  0, -1, -4, -3, -3,  4,  1, -1, -4,
    -1,  0,  0,  1, -3,  3,  4, -2,  0, -3, -3,  1, -1, -3, -1,  0, -1, -3, -2, -2,  1,  4, -1, -4,
     0, -1, -1, -1, -2, -1, -1, -1, -1, -1, -1, -1, -1, -1, -2,  0,  0, -2, -1, -1, -1, -1, -1, -4,
    -4, -4, -4, -4, -4, -4, -4, -4, -4, -4, -4, -4, -4, -4, -4, -4, -4, -4, -4, -4, -4, -4, -4,  1
  >>

score_for(matrix, a, b) ==
  LET i == acid_to_index(a)
      j == acid_to_index(b)
  IN  matrix[(i * COLS + j) + 1]

\* ---------------------------------------------------------------- aligner
\* Scores are i32; within the bounds below every value stays far inside the
\* i32 range, so plain integers compute what the code computes.
max(x, y) == IF y > x THEN y ELSE x

\* Variant: the cell to the left is left out of the maximum.
RECURSIVE fill_cells_no_left(_, _, _, _, _, _)
fill_cells_no_left(dp, c, sa, sb, g, table) ==
  LET m == Len(sa)
      n == Len(sb)
      idx(i, j) == i * (n + 1) + j
  IN  IF c >= m * n THEN dp
      ELSE LET i == (c \div n) + 1
               j == (c % n) + 1
               sc == score_for(table, sa[i], sb[j])
               diag == dp[idx(i - 1, j - 1)] + sc
               up == dp[idx(i - 1, j)] + g
           IN  fill_cells_no_left([dp EXCEPT ![idx(i, j)] = max(diag, up)],
                          c + 1, sa, sb, g, table)

\* The nested loops over i in 1..=m, j in 1..=n, cell c = (i-1)*n + (j-1).
RECURSIVE fill_cells(_, _, _, _, _, _)
fill_cells(dp, c, sa, sb, g, table) ==
  LET m == Len(sa)
      n == Len(sb)
      idx(i, j) == i * (n + 1) + j
  IN  IF c >= m * n THEN dp
      ELSE LET i == (c \div n) + 1
               j == (c % n) + 1
               sc == score_for(table, sa[i], sb[j])
               diag == dp[idx(i - 1, j - 1)] + sc
               up == dp[idx(i - 1, j)] + g
               left == dp[idx(i, j - 1)] + g
           IN  fill_cells([dp EXCEPT ![idx(i, j)] = max(max(diag, up), left)],
                          c + 1, sa, sb, g, table)

\* Variant: the first row is not initialised with gap penalties.
align_dp_table_free_ends(sa, sb, g, table) ==
  LET m == Len(sa)
      n == Len(sb)
      idx(i, j) == i * (n + 1) + j
      dp0 == [k \in 0..((m + 1) * (n + 1) - 1) |-> 0]
      dp1 == [k \in DOMAIN dp0 |->
                IF k % (n + 1) = 0 THEN (k \div (n + 1)) * g ELSE dp0[k]]
      dp == fill_cells(dp1, 0, sa, sb, g, table)
  IN  dp[idx(m, n)]

align_dp_table(sa, sb, g, table) ==
  LET m == Len(sa)
      n == Len(sb)
      idx(i, j) == i * (n + 1) + j
      dp0 == [k \in 0..((m + 1) * (n + 1) - 1) |-> 0]
      dp1 == [k \in DOMAIN dp0 |->
                IF k % (n + 1) = 0 THEN (k \div (n + 1)) * g ELSE dp0[k]]
      dp2 == [k \in DOMAIN dp1 |-> IF k \div (n + 1) = 0 THEN k * g ELSE dp1[k]]
      dp == fill_cells(dp2, 0, sa, sb, g, table)
  IN  dp[idx(m, n)]

\* impl Needleman for Blosum62: the table is Blosum62::default().
needleman_wunsch(sa, sb) == align_dp_table(sa, sb, -5, BLOSUM62)

\* ------------------------------------------------------------- union-find
UnionFind_new(n) == [x \in 0..(n - 1) |-> -1]

\* Variant: the parent is returned as the root, without walking further.
find_one_step(p, x) ==
  IF p[x] < 0 THEN [root |-> x, parent |-> p]
  ELSE [root |-> p[x], parent |-> p]

\* Variant: the root is found but no parent link is rewritten.
RECURSIVE find_no_compress(_, _)
find_no_compress(p, x) ==
  IF p[x] < 0 THEN [root |-> x, parent |-> p]
  ELSE [root |-> find_no_compress(p, p[x]).root, parent |-> p]

\* find with path compression: the root and the parent array afterwards.
RECURSIVE find(_, _)
find(p, x) ==
  IF p[x] < 0 THEN [root |-> x, parent |-> p]
  ELSE LET r == find(p, p[x])
       IN  [root |-> r.root, parent |-> [r.parent EXCEPT ![x] = r.root]]

\* Variant: the root with the less negative parent (smaller size) is kept.
union_small_wins(p, a, b) ==
  LET fa == find(p, a)
      fb == find(fa.parent, b)
      ra == fa.root
      rb == fb.root
      q == fb.parent
  IN  IF ra = rb THEN [ret |-> FALSE, parent |-> q]
      ELSE LET big == IF q[ra] >= q[rb] THEN ra ELSE rb
               small == IF q[ra] >= q[rb] THEN rb ELSE ra
               q1 == [q EXCEPT ![big] = q[big] + q[small]]
           IN  [ret |-> TRUE, parent |-> [q1 EXCEPT ![small] = big]]

\* Variant: the small root is attached but the sizes are not combined.
union_no_size_sum(p, a, b) ==
  LET fa == find(p, a)
      fb == find(fa.parent, b)
      ra == fa.root
      rb == fb.root
      q == fb.parent
  IN  IF ra = rb THEN [ret |-> FALSE, parent |-> q]
      ELSE LET big == IF q[ra] <= q[rb] THEN ra ELSE rb
               small == IF q[ra] <= q[rb] THEN rb ELSE ra
           IN  [ret |-> TRUE, parent |-> [q EXCEPT ![small] = big]]

\* Variant: the sizes are combined but the small root is never attached.
union_no_attach(p, a, b) ==
  LET fa == find(p, a)
      fb == find(fa.parent, b)
      ra == fa.root
      rb == fb.root
      q == fb.parent
  IN  IF ra = rb THEN [ret |-> FALSE, parent |-> q]
      ELSE LET big == IF q[ra] <= q[rb] THEN ra ELSE rb
               small == IF q[ra] <= q[rb] THEN rb ELSE ra
               q1 == [q EXCEPT ![big] = q[big] + q[small]]
           IN  [ret |-> TRUE, parent |-> q1]

\* Variant: the argument itself, not its root, is attached under the big root.
union_attach_arg(p, a, b) ==
  LET fa == find(p, a)
      fb == find(fa.parent, b)
      ra == fa.root
      rb == fb.root
      q == fb.parent
  IN  IF ra = rb THEN [ret |-> FALSE, parent |-> q]
      ELSE LET big == IF q[ra] <= q[rb] THEN ra ELSE rb
               small == IF q[ra] <= q[rb] THEN rb ELSE ra
               q1 == [q EXCEPT ![big] = q[big] + q[small]]
           IN  [ret |-> TRUE, parent |-> [q1 EXCEPT ![IF small = ra THEN a ELSE b] = big]]

union(p, a, b) ==
  LET fa == find(p, a)
      fb == find(fa.parent, b)
      ra == fa.root
      rb == fb.root
      q == fb.parent
  IN  IF ra = rb THEN [ret |-> FALSE, parent |-> q]
      ELSE LET big == IF q[ra] <= q[rb] THEN ra ELSE rb
               small == IF q[ra] <= q[rb] THEN rb ELSE ra
               q1 == [q EXCEPT ![big] = q[big] + q[small]]
           IN  [ret |-> TRUE, parent |-> [q1 EXCEPT ![small] = big]]

\* ------------------------------------------------------------ cluster tree
Leaf(v) == [kind |-> "Leaf", val |-> v]
Node(l, r, s) == [kind |-> "Node", left |-> l, right |-> r, similarity |-> s]
None == [kind |-> "None"]
Some(t) == [kind |-> "Some", val |-> t]

\* --------------------------------------------------------- cluster manager
\* Vec length and push for the vectors kept as functions on 0..len-1.
vec_len(v) == Cardinality(DOMAIN v)
vec_push(v, x) == [i \in 0..vec_len(v) |-> IF i < vec_len(v) THEN v[i] ELSE x]

create_initial_clusters(names) == [i \in DOMAIN names |-> Leaf(names[i])]

\* Variant: the disjoint-set gets n slots instead of 2n.
ClusterManager_new_n_slots(initial_clusters) ==
  LET n == vec_len(initial_clusters)
  IN  [clusters |-> initial_clusters,
       uf |-> UnionFind_new(n),
       cluster_map |-> [i \in 0..(n - 1) |-> i]]

ClusterManager_new(initial_clusters) ==
  LET n == vec_len(initial_clusters)
  IN  [clusters |-> initial_clusters,
       uf |-> UnionFind_new(2 * n),
       cluster_map |-> [i \in 0..(n - 1) |-> i]]

\* get(species): the cluster id, and the parent array after the find.
ClusterManager_get(m, s) == find(m.uf, m.cluster_map[s])

\* Variant: the length after the push is returned, not the last index.
ClusterManager_add_cluster_len(m, new_cluster) ==
  [id |-> vec_len(m.clusters) + 1,
   m |-> [m EXCEPT !.clusters = vec_push(m.clusters, new_cluster)]]

ClusterManager_add_cluster(m, new_cluster) ==
  [id |-> vec_len(m.clusters),
   m |-> [m EXCEPT !.clusters = vec_push(m.clusters, new_cluster)]]

\* Variant: an entry is rewritten only when it holds a itself (no find, no b).
RECURSIVE merge_scan_only_a_entry(_, _, _, _, _)
merge_scan_only_a_entry(m, k, a, b, new_id) ==
  IF k >= vec_len(m.cluster_map) THEN m
  ELSE LET cm == IF m.cluster_map[k] = a
                 THEN [m.cluster_map EXCEPT ![k] = new_id]
                 ELSE m.cluster_map
       IN  merge_scan_only_a_entry([m EXCEPT !.cluster_map = cm],
                                   k + 1, a, b, new_id)

\* Variant: the scan stops at the first entry it rewrites.
RECURSIVE merge_scan_first_only(_, _, _, _, _)
merge_scan_first_only(m, k, a, b, new_id) ==
  IF k >= vec_len(m.cluster_map) THEN m
  ELSE LET f == find(m.uf, m.cluster_map[k])
       IN  IF f.root = a \/ f.root = b
           THEN [m EXCEPT !.uf = f.parent, !.cluster_map[k] = new_id]
           ELSE merge_scan_first_only([m EXCEPT !.uf = f.parent],
                                      k + 1, a, b, new_id)

\* Variant: the matching entries are pointed at a, not at new_id.
RECURSIVE merge_scan_to_a(_, _, _, _, _)
merge_scan_to_a(m, k, a, b, new_id) ==
  IF k >= vec_len(m.cluster_map) THEN m
  ELSE LET f == find(m.uf, m.cluster_map[k])
       IN  merge_scan_to_a(
             [m EXCEPT !.uf = f.parent,
                       !.cluster_map[k] = IF f.root = a \/ f.root = b THEN a ELSE @],
             k + 1, a, b, new_id)

\* The scan of merge over cluster_map entries k, k+1, ...
\* (the manager is bound to mv once per entry).
RECURSIVE merge_scan(_, _, _, _, _)
merge_scan(m, k, a, b, new_id) ==
  CHOOSE r \in
    {IF k >= vec_len(mv.cluster_map) THEN mv
     ELSE LET f == find(mv.uf, mv.cluster_map[k])
              cm == IF f.root = a \/ f.root = b
                    THEN [mv.cluster_map EXCEPT ![k] = new_id]
                    ELSE mv.cluster_map
          IN  merge_scan([mv EXCEPT !.uf = f.parent, !.cluster_map = cm],
                         k + 1, a, b, new_id) : mv \in {m}} : TRUE

ClusterManager_merge(m, a, b, new_id) ==
  merge_scan([m EXCEPT !.uf = union(m.uf, a, b).parent], 0, a, b, new_id)

\* Variant: the root is read at index 0 instead of through cluster_map.
ClusterManager_root_first(m) ==
  IF vec_len(m.cluster_map) = 0 THEN None ELSE Some(m.clusters[0])

ClusterManager_root(m) ==
  IF vec_len(m.cluster_map) = 0 THEN None
  ELSE Some(m.clusters[m.cluster_map[0]])

\* Partition for Vec<Species>: the names and the genomes, in input order.
part(sp) ==
  [names |-> [i \in 0..(Len(sp) - 1) |-> sp[i + 1].name],
   genomes |-> [i \in 0..(Len(sp) - 1) |-> sp[i + 1].genome]]

\* ------------------------------------------------------------ edge producer
\* Variant: the inner iterator of task i starts at i instead of i + 1.
first_j_from_self(i) == i

\* The first j of the inner iterator (i + 1..n) of task i.
first_j(i) == i + 1

\* The closure applied to one pair: the edge of species i and j.
pair_edge(genomes, i, j) ==
  [species_a |-> i, species_b |-> j,
   similarity |-> needleman_wunsch(genomes[i], genomes[j])]

\* Variant: every ordered pair of distinct species gets an edge.
compute_edges_ordered_pairs(genomes) ==
  LET n == vec_len(genomes)
  IN  {[species_a |-> i, species_b |-> j,
        similarity |-> needleman_wunsch(genomes[i], genomes[j])] :
         <<i, j>> \in {p \in (0..(n - 1)) \X (0..(n - 1)) : p[1] # p[2]}}

compute_edges(genomes) ==
  LET n == vec_len(genomes)
  IN  {[species_a |-> i, species_b |-> j,
        similarity |-> needleman_wunsch(genomes[i], genomes[j])] :
         <<i, j>> \in {p \in (0..(n - 1)) \X (0..(n - 1)) : p[1] < p[2]}}

\* Variant: a min-heap (the least similarity is popped first).
heap_pop_min(h) == {e \in h : \A o \in h : o.similarity >= e.similarity}

\* Variant: an unordered container (any edge may be popped).
heap_pop_any(h) == h

\* Variant: Ord for Edge compares species_a instead of similarity.
heap_pop_by_species(h) == {e \in h : \A o \in h : o.species_a <= e.species_a}

\* BinaryHeap::pop of a max-heap ordered by Ord for Edge (similarity only):
\* the edges it may return, any one of those with the greatest similarity.
heap_pop(h) == {e \in h : \A o \in h : o.similarity <= e.similarity}

\* Variant: the left cluster is cloned into both children.
loop_body_left_twice(m, edge) ==
  LET ga == ClusterManager_get(m, edge.species_a)
      m1 == [m EXCEPT !.uf = ga.parent]
      gb == ClusterManager_get(m1, edge.species_b)
      m2 == [m1 EXCEPT !.uf = gb.parent]
      ca == ga.root
      cb == gb.root
  IN  IF ca # cb
      THEN LET new_cluster == Node(m2.clusters[ca], m2.clusters[ca], edge.similarity)
               ac == ClusterManager_add_cluster(m2, new_cluster)
           IN  ClusterManager_merge(ac.m, ca, cb, ac.id)
      ELSE m2

\* Variant: the test ca != cb is missing.
loop_body_always_merge(m, edge) ==
  LET ga == ClusterManager_get(m, edge.species_a)
      m1 == [m EXCEPT !.uf = ga.parent]
      gb == ClusterManager_get(m1, edge.species_b)
      m2 == [m1 EXCEPT !.uf = gb.parent]
      ca == ga.root
      cb == gb.root
  IN  IF TRUE
      THEN LET new_cluster == Node(m2.clusters[ca], m2.clusters[cb], edge.similarity)
               ac == ClusterManager_add_cluster(m2, new_cluster)
           IN  ClusterManager_merge(ac.m, ca, cb, ac.id)
      ELSE m2

\* The body of the while loop of cluster() for one popped edge
\* (ga and gb, the results of the two calls of get, are each bound once).
loop_body(m, edge) ==
  CHOOSE r \in
    {CHOOSE q \in
       {LET m2 == [m EXCEPT !.uf = gb.parent]
            ca == ga.root
            cb == gb.root
        IN  IF ca # cb
            THEN LET new_cluster == Node(m2.clusters[ca], m2.clusters[cb], edge.similarity)
                     ac == ClusterManager_add_cluster(m2, new_cluster)
                 IN  ClusterManager_merge(ac.m, ca, cb, ac.id)
            ELSE m2
          : gb \in {ClusterManager_get([m EXCEPT !.uf = ga.parent], edge.species_b)}} : TRUE
      : ga \in {ClusterManager_get(m, edge.species_a)}} : TRUE

\* ------------------------------------------------------------------ inputs
Seqs(S, n) == UNION {[1..k -> S] : k \in 0..n}

SpeciesPool ==
  {[name |-> "x", genome |-> <<"Alanine">>],
   [name |-> "y", genome |-> <<"Alanine", "Arginine">>],
   [name |-> "x", genome |-> <<"Arginine">>],
   [name |-> "z", genome |-> <<>>]}

AcidPool == {"Alanine", "Arginine", "Asparagine"}

GapPenalties == {-5, -1, 0, 3}

NoCall == [op |-> "none", a |-> 0, b |-> 0, root |-> 0, ret |-> FALSE, pre |-> <<>>]

manager == [uf |-> parent, clusters |-> clusters, cluster_map |-> cluster_map]

KruskalIdle == last = NoCall /\ linked = {}
UnionFindIdle ==
  /\ species = <<>> /\ clusters = <<>> /\ cluster_map = <<>>
  /\ heap = {} /\ result = None
AlignerIdle == seq_a = <<>> /\ seq_b = <<>> /\ gap_penalty = 0 /\ score = 0
ProducerIdle == next_j = <<>> /\ edges = EmptyBag

\* ------------------------------------------------------- Kruskal::cluster
Init ==
  /\ pc = "start"
  /\ species \in Seqs(SpeciesPool, MaxSpecies)
  /\ clusters = <<>> /\ cluster_map = <<>> /\ parent = <<>>
  /\ heap = {} /\ result = None
  /\ KruskalIdle /\ AlignerIdle /\ ProducerIdle

\* part(), the emptiness test, ClusterManager::new and compute_edges.
\* lib.rs holds both sides of an unresolved merge at this test
\* (names.is_empty() || genomes.is_empty() and names.is_empty()); part() unzips
\* one list, so names and genomes have the same length and both sides agree.
Start ==
  /\ pc = "start"
  /\ LET names == part(species).names
         genomes == part(species).genomes
     IN  IF vec_len(names) = 0
         THEN /\ result' = None
              /\ pc' = "done"
              /\ UNCHANGED <<clusters, cluster_map, parent, heap>>
         ELSE LET m == ClusterManager_new(create_initial_clusters(names))
              IN  /\ clusters' = m.clusters
                  /\ cluster_map' = m.cluster_map
                  /\ parent' = m.uf
                  /\ heap' = compute_edges(genomes)
                  /\ pc' = "loop"
                  /\ UNCHANGED result
  /\ UNCHANGED <<species, last, linked, seq_a, seq_b, gap_penalty, score,
                 next_j, edges>>

\* One iteration of `while let Some(edge) = heap.pop()`.
LoopIteration ==
  /\ pc = "loop"
  /\ heap # {}
  /\ \E edge \in heap_pop(heap) :
       \E m \in {loop_body(manager, edge)} :
           /\ heap' = heap \ {edge}
           /\ clusters' = m.clusters
           /\ cluster_map' = m.cluster_map
           /\ parent' = m.uf
  /\ UNCHANGED <<pc, species, result, last, linked, seq_a, seq_b, gap_penalty, score,
                 next_j, edges>>

\* The heap is empty: the loop exits and cluster() returns manager.root().
Return ==
  /\ pc = "loop"
  /\ heap = {}
  /\ result' = ClusterManager_root(manager)
  /\ pc' = "done"
  /\ UNCHANGED <<species, clusters, cluster_map, parent, heap, last, linked,
                 seq_a, seq_b, gap_penalty, score,
                 next_j, edges>>

Next == Start \/ LoopIteration \/ Return

Spec == Init /\ [][Next]_vars

\* The loop is never abandoned: an enabled step of cluster() is taken.
FairSpec == Init /\ [][Next]_vars /\ WF_vars(Next)

\* ------------------------------------- Kruskal::cluster, compute_edges in tasks
\* cluster() up to the call of compute_edges, and the start of its parallel
\* iterator: one task per i in 0..n, none of which has produced an edge.
StartPar ==
  /\ pc = "start"
  /\ LET names == part(species).names
     IN  IF vec_len(names) = 0
         THEN /\ result' = None
              /\ pc' = "done"
              /\ UNCHANGED <<clusters, cluster_map, parent, next_j>>
         ELSE LET m == ClusterManager_new(create_initial_clusters(names))
              IN  /\ clusters' = m.clusters
                  /\ cluster_map' = m.cluster_map
                  /\ parent' = m.uf
                  /\ next_j' = [i \in 0..(vec_len(names) - 1) |-> first_j(i)]
                  /\ pc' = "edges"
                  /\ UNCHANGED result
  /\ UNCHANGED <<species, heap, last, linked, seq_a, seq_b, gap_penalty, score,
                 edges>>

\* Task i computes the edge of its next pair; the tasks run in any order.
Task(i) ==
  /\ pc = "edges"
  /\ i \in DOMAIN next_j
  /\ next_j[i] < vec_len(next_j)
  /\ edges' = edges (+) SetToBag({pair_edge(part(species).genomes, i, next_j[i])})
  /\ next_j' = [next_j EXCEPT ![i] = @ + 1]
  /\ UNCHANGED <<pc, species, clusters, cluster_map, parent, heap, result,
                 last, linked, seq_a, seq_b, gap_penalty, score>>

\* Every task is exhausted: collect() returns and the edges go into the heap.
Collect ==
  /\ pc = "edges"
  /\ \A i \in DOMAIN next_j : next_j[i] >= vec_len(next_j)
  /\ heap' = BagToSet(edges)
  /\ pc' = "loop"
  /\ UNCHANGED <<species, clusters, cluster_map, parent, result, last, linked,
                 seq_a, seq_b, gap_penalty, score, next_j, edges>>

NextPar ==
  \/ StartPar
  \/ \E i \in 0..(MaxSpecies - 1) : Task(i)
  \/ Collect
  \/ LoopIteration
  \/ Return

SpecPar == Init /\ [][NextPar]_vars

\* ------------------------------------------------------ UnionFind on its own
InitUF ==
  /\ pc = "uf"
  /\ \E n \in 1..UFSize : parent = UnionFind_new(n)
  /\ last = [NoCall EXCEPT !.op = "new", !.pre = parent]
  /\ linked = {<<x, x>> : x \in DOMAIN parent}
  /\ UnionFindIdle /\ AlignerIdle /\ ProducerIdle

Find(x) ==
  /\ pc = "uf"
  /\ LET f == find(parent, x)
     IN  /\ parent' = f.parent
         /\ last' = [op |-> "find", a |-> x, b |-> x, root |-> f.root,
                     ret |-> FALSE, pre |-> parent]
  /\ UNCHANGED <<pc, species, clusters, cluster_map, heap, result, linked,
                 seq_a, seq_b, gap_penalty, score,
                 next_j, edges>>

Union(a, b) ==
  /\ pc = "uf"
  /\ LET u == union(parent, a, b)
     IN  /\ parent' = u.parent
         /\ last' = [op |-> "union", a |-> a, b |-> b, root |-> 0,
                     ret |-> u.ret, pre |-> parent]
  /\ linked' = {p \in (DOMAIN parent) \X (DOMAIN parent) :
                  \/ p \in linked
                  \/ <<p[1], a>> \in linked /\ <<b, p[2]>> \in linked
                  \/ <<p[1], b>> \in linked /\ <<a, p[2]>> \in linked}
  /\ UNCHANGED <<pc, species, clusters, cluster_map, heap, result,
                 seq_a, seq_b, gap_penalty, score,
                 next_j, edges>>

NextUF ==
  \/ \E x \in DOMAIN parent : Find(x)
  \/ \E a, b \in DOMAIN parent : Union(a, b)

SpecUF == InitUF /\ [][NextUF]_vars

\* ---------------------------------------------------------- aligner on its own
InitNW ==
  /\ pc = "input"
  /\ seq_a \in Seqs(AcidPool, MaxSeqLen)
  /\ seq_b \in Seqs(AcidPool, MaxSeqLen)
  /\ gap_penalty = 0 /\ score = 0
  /\ parent = <<>>
  /\ KruskalIdle /\ UnionFindIdle /\ ProducerIdle

\* Blosum62::needleman_wunsch(seq_a, seq_b): the gap penalty is fixed at -5.
NeedlemanWunsch ==
  /\ pc = "input"
  /\ gap_penalty' = -5
  /\ score' = needleman_wunsch(seq_a, seq_b)
  /\ pc' = "scored"
  /\ UNCHANGED <<species, clusters, cluster_map, parent, heap, result, last,
                 linked, seq_a, seq_b, next_j, edges>>

\* align_dp_table(seq_a, seq_b, g, &Blosum62) for a gap penalty g.
AlignDpTable ==
  /\ pc = "input"
  /\ \E g \in GapPenalties :
       /\ gap_penalty' = g
       /\ score' = align_dp_table(seq_a, seq_b, g, BLOSUM62)
  /\ pc' = "scored"
  /\ UNCHANGED <<species, clusters, cluster_map, parent, heap, result, last,
                 linked, seq_a, seq_b, next_j, edges>>

NextNW == NeedlemanWunsch \/ AlignDpTable

SpecNW == InitNW /\ [][NextNW]_vars

\* ======================================================== tree measurements
RECURSIVE leaf_labels(_)
leaf_labels(t) ==
  IF t.kind = "Leaf" THEN SetToBag({t.val})
  ELSE leaf_labels(t.left) (+) leaf_labels(t.right)

RECURSIVE input_names(_, _)
input_names(sp, k) ==
  IF k = 0 THEN EmptyBag ELSE input_names(sp, k - 1) (+) SetToBag({sp[k].name})

RECURSIVE num_leaves(_)
num_leaves(t) ==
  IF t.kind = "Leaf" THEN 1 ELSE num_leaves(t.left) + num_leaves(t.right)

RECURSIVE num_nodes(_)
num_nodes(t) ==
  IF t.kind = "Leaf" THEN 0 ELSE 1 + num_nodes(t.left) + num_nodes(t.right)

\* The similarities met on each path from the root of t down to a leaf.
RECURSIVE paths(_)
paths(t) ==
  IF t.kind = "Leaf" THEN {<<>>}
  ELSE {<<t.similarity>> \o q : q \in paths(t.left) \cup paths(t.right)}

NonIncreasing(q) == \A k \in 1..(Len(q) - 1) : q[k] >= q[k + 1]
NonDecreasing(q) == \A k \in 1..(Len(q) - 1) : q[k] <= q[k + 1]

RECURSIVE node_sims(_)
node_sims(t) ==
  IF t.kind = "Leaf" THEN EmptyBag
  ELSE SetToBag({t.similarity}) (+) node_sims(t.left) (+) node_sims(t.right)

\* Every internal node is at most as similar as each internal child.
RECURSIVE children_at_least(_)
children_at_least(t) ==
  \/ t.kind = "Leaf"
  \/ /\ t.left.kind = "Node" => t.similarity <= t.left.similarity
     /\ t.right.kind = "Node" => t.similarity <= t.right.similarity
     /\ children_at_least(t.left)
     /\ children_at_least(t.right)

Returned == pc = "done" /\ result.kind = "Some"

\* ================================================================== claims

\* C1: cluster(species) returns None if and only if the species list is empty;
\* for exactly one species it returns Leaf(name) of that species; for two or
\* more species it returns a Node.
C1_ReturnShape ==
  pc = "done" =>
    /\ result = None <=> Len(species) = 0
    /\ Len(species) = 1 => result = Some(Leaf(species[1].name))
    /\ Len(species) >= 2 => result.kind = "Some" /\ result.val.kind = "Node"

C1_Witness == Returned /\ Len(species) >= 2 /\ result.val.kind = "Node"

\* C2: the multiset of leaf labels of the returned tree equals the multiset of
\* input names, duplicates included.
C2_LeafPreservation ==
  Returned => leaf_labels(result.val) = input_names(species, Len(species))

C2_Witness ==
  /\ Returned
  /\ Len(species) >= 3
  /\ species[1].name = species[3].name
  /\ species[1].genome # species[3].genome
  /\ CopiesIn(species[1].name, leaf_labels(result.val)) >= 2

\* C3: for N >= 1 species the returned tree has exactly N leaves and exactly
\* N-1 internal nodes (each internal node has its two children).
C3_NodeCount ==
  pc = "done" /\ Len(species) >= 1 =>
    /\ result.kind = "Some"
    /\ num_leaves(result.val) = Len(species)
    /\ num_nodes(result.val) = Len(species) - 1

C3_Witness == Returned /\ num_leaves(result.val) = 4 /\ num_nodes(result.val) = 3

\* C4 as stated: on every root-to-leaf path of the returned tree, the
\* similarities of the internal nodes, read from the root toward the leaf, are
\* non-increasing.
C4_Original == Returned => \A q \in paths(result.val) : NonIncreasing(q)

\* C4 amended: on every root-to-leaf path of the returned tree, the
\* similarities of the internal nodes, read from the root toward the leaf, are
\* non-decreasing (the root carries the smallest similarity of the path).
C4_PathsNonDecreasing == Returned => \A q \in paths(result.val) : NonDecreasing(q)

C4_Witness ==
  Returned /\ \E q \in paths(result.val) : Len(q) >= 2 /\ q[1] < q[Len(q)]

\* C5: every internal node's similarity is at most the similarity of each of
\* its children that is itself an internal node.
C5_WeaklyDecreasingTowardRoot == Returned => children_at_least(result.val)

C5_Witness ==
  /\ Returned
  /\ result.val.kind = "Node"
  /\ result.val.left.kind = "Node"
  /\ result.val.right.kind = "Node"
  /\ result.val.similarity < result.val.left.similarity
  /\ result.val.similarity < result.val.right.similarity

\* The run that breaks every tie toward the least (species_a, species_b).
RECURSIVE canonical_run(_, _)
canonical_run(m, h) ==
  IF h = {} THEN m
  ELSE LET top == heap_pop(h)
           e == CHOOSE e \in top : \A o \in top :
                  \/ e.species_a < o.species_a
                  \/ e.species_a = o.species_a /\ e.species_b <= o.species_b
       IN  canonical_run(loop_body(m, e), h \ {e})

canonical_tree(sp) ==
  ClusterManager_root(
    canonical_run(ClusterManager_new(create_initial_clusters(part(sp).names)),
                  compute_edges(part(sp).genomes))).val

\* C6: whatever order the heap pops edges of equal similarity in, the multiset
\* of similarities on the internal nodes of the returned tree is the same: it
\* is that of the run breaking ties toward the least (species_a, species_b).
C6_ScoreMultisetInvariant ==
  Returned => node_sims(result.val) = node_sims(canonical_tree(species))

C6_Witness ==
  /\ Returned
  /\ Len(species) >= 3
  /\ result.val # canonical_tree(species)
  /\ leaf_labels(result.val.left) # leaf_labels(canonical_tree(species).left)

\* C7: aligning with an empty sequence costs one gap per symbol of the other:
\* NW(a, empty) = |a| * g, NW(empty, a) = |a| * g and NW(empty, empty) = 0,
\* for the fixed g = -5 and for every other gap penalty.
C7_DpBoundary ==
  pc = "scored" =>
    /\ seq_b = <<>> => score = Len(seq_a) * gap_penalty
    /\ seq_a = <<>> => score = Len(seq_b) * gap_penalty
    /\ seq_a = <<>> /\ seq_b = <<>> => score = 0

C7_Witness ==
  /\ pc = "scored"
  /\ seq_a = <<>>
  /\ Len(seq_b) = 2
  /\ gap_penalty = -5
  /\ score = -10

\* C8: with the (symmetric) table and the same gap penalty, the score of
\* (a, b) equals the score of (b, a).
C8_ScoreSymmetry ==
  pc = "scored" => score = align_dp_table(seq_b, seq_a, gap_penalty, BLOSUM62)

C8_Witness ==
  /\ pc = "scored"
  /\ Len(seq_a) = 1
  /\ Len(seq_b) = 2
  /\ seq_b[1] # seq_b[2]
  /\ seq_a[1] # seq_b[1]

\* Connectivity as find reports it on a parent array.
connected(p, x, y) == find(p, x).root = find(p, y).root
partition(p) == {{y \in DOMAIN p : connected(p, x, y)} : x \in DOMAIN p}

\* C9: union(a, b) returns false exactly when a and b were in the same set
\* before the call, and then no pair changes connectivity; otherwise it
\* returns true and afterwards find(a) = find(b).
C9_UnionResult ==
  last.op = "union" =>
    LET same == connected(last.pre, last.a, last.b)
    IN  /\ last.ret = FALSE <=> same
        /\ same => \A x, y \in DOMAIN parent :
                     connected(parent, x, y) <=> connected(last.pre, x, y)
        /\ ~same => last.ret = TRUE /\ connected(parent, last.a, last.b)

C9_Witness ==
  /\ last.op = "union"
  /\ last.ret = FALSE
  /\ last.a # last.b
  /\ last.pre[last.a] >= 0
  /\ last.pre[last.b] >= 0

\* C10: find(x) = find(y) exactly when x and y are joined by a chain of the
\* union calls made; a union(a, b) joins the sets of a and b and changes the
\* connectivity of no other pair; union(a, b) and union(b, a) give the same
\* partition.
C10_Components ==
  /\ \A x, y \in DOMAIN parent : connected(parent, x, y) <=> <<x, y>> \in linked
  /\ last.op = "union" =>
       \A x, y \in DOMAIN parent :
         connected(parent, x, y) <=>
           \/ connected(last.pre, x, y)
           \/ connected(last.pre, x, last.a) /\ connected(last.pre, last.b, y)
           \/ connected(last.pre, x, last.b) /\ connected(last.pre, last.a, y)
  /\ \A a, b \in DOMAIN parent :
       partition(union(parent, a, b).parent) = partition(union(parent, b, a).parent)

C10_Witness ==
  /\ last.op = "union"
  /\ last.ret = TRUE
  /\ \E x, y \in DOMAIN parent :
       /\ x # last.a /\ x # last.b
       /\ connected(last.pre, x, last.b)
       /\ connected(parent, x, last.a)
       /\ ~connected(parent, y, last.a)

\* C11: find is idempotent: for every element x, find(find(x)) = find(x); a
\* second find(x) right after the first returns the same root and leaves the
\* parent array as the first left it; and a find changes no connectivity.
C11_FindIdempotent ==
  /\ \A x \in DOMAIN parent :
       LET f1 == find(parent, x)
           f2 == find(f1.parent, x)
       IN  /\ find(f1.parent, f1.root).root = f1.root
           /\ f2.root = f1.root
           /\ f2.parent = f1.parent
           /\ partition(f1.parent) = partition(parent)
  /\ last.op = "find" =>
       /\ find(parent, last.root).root = last.root
       /\ find(parent, last.a) = [root |-> last.root, parent |-> parent]
       /\ partition(parent) = partition(last.pre)

C11_Witness ==
  /\ last.op = "find"
  /\ last.root # last.a
  /\ last.pre[last.a] # last.root
  /\ parent # last.pre

\* ------------------------------------------------- the run seen from outside
NumSpecies == Len(species)
SpeciesIds == 0..(NumSpecies - 1)
Running == pc = "loop" \/ pc = "done"

\* The edges popped so far, and the species they join to species i.
popped == compute_edges(part(species).genomes) \ heap

RECURSIVE reach(_, _)
reach(S, E) ==
  LET T == S \cup {e.species_b : e \in {d \in E : d.species_a \in S}}
             \cup {e.species_a : e \in {d \in E : d.species_b \in S}}
  IN  IF T = S THEN S ELSE reach(T, E)

component(i) == reach({i}, popped)

get(s) == ClusterManager_get(manager, s).root

\* C12 as stated: after any merge, find(i) = find(j) in the disjoint-set, find
\* being applied to the species' own indices, for all species i, j of a merged
\* component.
C12_Original ==
  Running =>
    \A i, j \in SpeciesIds : j \in component(i) => connected(parent, i, j)

\* C12 amended: after any merge, species i and j of a merged component have
\* the same current cluster: find applied to cluster_map[i] and to
\* cluster_map[j] returns the same root.
C12_MergedShareCluster ==
  Running => \A i, j \in SpeciesIds : j \in component(i) => get(i) = get(j)

C12_Witness ==
  /\ Running
  /\ vec_len(clusters) >= NumSpecies + 2
  /\ \E i \in SpeciesIds :
       /\ Cardinality(component(i)) >= 3
       /\ \A j \in component(i) : get(j) = get(i)
       /\ \E j \in component(i) : ~connected(parent, i, j)

\* The names of a set of species, as a bag.
RECURSIVE names_bag(_)
names_bag(S) ==
  IF S = {} THEN EmptyBag
  ELSE LET t == CHOOSE t \in S : TRUE
       IN  SetToBag({species[t + 1].name}) (+) names_bag(S \ {t})

cluster_mates(s) == {t \in SpeciesIds : get(t) = get(s)}

\* C13: in every state of a run and for every species s, get(s) is an index
\* below clusters.len(), and the tree stored there has as its leaves exactly
\* the species t with get(t) = get(s), which are the species joined with s by
\* the edges popped so far.
C13_CurrentClusterTree ==
  Running =>
    \A s \in SpeciesIds :
      /\ get(s) \in 0..(vec_len(clusters) - 1)
      /\ cluster_mates(s) = component(s)
      /\ num_leaves(clusters[get(s)]) = Cardinality(cluster_mates(s))
      /\ leaf_labels(clusters[get(s)]) = names_bag(cluster_mates(s))

C13_Witness ==
  /\ pc = "loop"
  /\ heap # {}
  /\ \E s, t \in SpeciesIds :
       /\ Cardinality(cluster_mates(s)) = 2
       /\ get(t) # get(s)
       /\ clusters[get(s)].kind = "Node"
       /\ clusters[get(t)].kind = "Node"

LoopFinished == NumSpecies >= 1 /\ (pc = "done" \/ (pc = "loop" /\ heap = {}))

\* C14: when the loop has finished on N >= 1 species, every cluster_map entry
\* holds the same index, the index of the last cluster appended (2N-2 for
\* N >= 2, 0 for N = 1), and root() returns the tree at clusters[cluster_map[0]],
\* which contains all N species.
C14_FinalRoot ==
  LoopFinished =>
    /\ \A s \in SpeciesIds : cluster_map[s] = cluster_map[0]
    /\ cluster_map[0] = vec_len(clusters) - 1
    /\ cluster_map[0] = IF NumSpecies >= 2 THEN 2 * NumSpecies - 2 ELSE 0
    /\ num_leaves(clusters[cluster_map[0]]) = NumSpecies
    /\ leaf_labels(clusters[cluster_map[0]]) = input_names(species, NumSpecies)
    /\ pc = "done" => result = Some(clusters[cluster_map[0]])

C14_Witness ==
  /\ pc = "done"
  /\ NumSpecies = 4
  /\ cluster_map = [s \in 0..3 |-> 6]
  /\ result = Some(clusters[6])

\* The cluster ids handed to the disjoint-set: cluster_map entries (get and
\* the scan of merge), the roots get returns (union), the parent links find
\* follows, and the ids add_cluster has returned (every index from N on).
uf_ids ==
  {cluster_map[s] : s \in SpeciesIds}
    \cup {get(s) : s \in SpeciesIds}
    \cup {parent[x] : x \in {y \in DOMAIN parent : parent[y] >= 0}}
    \cup (NumSpecies..(vec_len(clusters) - 1))

\* C15: throughout a run over N >= 1 species (an empty input returns before a
\* manager exists) clusters.len() <= 2N-1; a completed
\* run ends with exactly 2N-1 clusters; and every cluster id handed to the
\* disjoint-set is at most 2N-2, inside the parent array of 2N slots.
C15_ClusterBounds ==
  Running /\ NumSpecies >= 1 =>
    /\ vec_len(clusters) <= 2 * NumSpecies - 1
    /\ LoopFinished => vec_len(clusters) = 2 * NumSpecies - 1
    /\ vec_len(parent) = 2 * NumSpecies
    /\ \A c \in uf_ids : 0 <= c /\ c <= 2 * NumSpecies - 2 /\ c \in DOMAIN parent

C15_Witness ==
  /\ pc = "loop"
  /\ heap # {}
  /\ NumSpecies = 4
  /\ vec_len(clusters) = 7
  /\ 6 \in uf_ids

NumEdges == (NumSpecies * (NumSpecies - 1)) \div 2
pops == Cardinality(popped)
merges == vec_len(clusters) - NumSpecies

C16_Counts ==
  Running /\ NumSpecies >= 1 =>
    /\ pops + Cardinality(heap) = NumEdges
    /\ merges <= NumSpecies - 1
    /\ pc = "done" => pops = NumEdges /\ merges = NumSpecies - 1
    /\ merges = NumSpecies - 1 =>
         \A e \in heap :
           /\ get(e.species_a) = get(e.species_b)
           /\ loop_body(manager, e).clusters = clusters
           /\ loop_body(manager, e).cluster_map = cluster_map

C16_Step ==
  pc = "loop" =>
    \/ /\ pc' = "loop"
       /\ \E e \in heap : heap' = heap \ {e}
       /\ vec_len(clusters') \in {vec_len(clusters), vec_len(clusters) + 1}
    \/ /\ pc' = "done"
       /\ heap = {}
       /\ clusters' = clusters

\* C16: for N >= 1 species the loop pops each of the N(N-1)/2 edges exactly
\* once and then exits; exactly N-1 pops merge; and once N-1 merges have
\* happened every remaining edge has both endpoints in one cluster and is
\* skipped.
C16_Termination ==
  /\ [](C16_Counts)
  /\ [][C16_Step]_vars
  /\ <>(pc = "done")

C16_Witness ==
  /\ pc = "loop"
  /\ NumSpecies = 4
  /\ merges = 3
  /\ Cardinality(heap) >= 2

\* ------------------------------------------------------------------- C17
\* C17: whatever the order in which the tasks of compute_edges produce their
\* pairs, once the edges are collected there are exactly N(N-1)/2 of them,
\* exactly one for each pair i < j, with species_a = i, species_b = j and
\* similarity = needleman_wunsch(genomes[i], genomes[j]), and the heap starts
\* from exactly these edges; while the tasks run, the heap is empty and the
\* manager is still the one built by ClusterManager::new (nothing is merged).
Collected == pc = "loop" \/ pc = "done"

\* The step in which collect() returns: what the container holds.
C17_Collect ==
  pc = "edges" /\ pc' = "loop" =>
    LET genomes == part(species).genomes IN
    /\ BagCardinality(edges') = NumEdges
    /\ \A i, j \in SpeciesIds :
         i < j => CopiesIn(pair_edge(genomes, i, j), edges') = 1
    /\ \A e \in BagToSet(edges') :
         /\ e.species_a \in SpeciesIds /\ e.species_b \in SpeciesIds
         /\ e.species_a < e.species_b
         /\ e.similarity =
              needleman_wunsch(genomes[e.species_a], genomes[e.species_b])
    /\ BagToSet(edges') = compute_edges(genomes)
    /\ heap' = BagToSet(edges')

\* While the tasks run, and after the edges are collected.
C17_Phases ==
  /\ pc = "edges" =>
       /\ heap = {}
       /\ BagCardinality(edges) <= NumEdges
       /\ manager = ClusterManager_new(create_initial_clusters(part(species).names))
  /\ Collected /\ NumSpecies >= 1 =>
       /\ BagCardinality(edges) = NumEdges
       /\ heap \subseteq BagToSet(edges)

C17_EdgeProducer ==
  /\ [](C17_Phases)
  /\ [][C17_Collect]_vars
  /\ [][Collected => edges' = edges]_vars

\* Task 2 has finished before task 0 has produced anything.
OutOfOrder == pc = "edges" /\ NumSpecies = 4 /\ next_j[2] = 4 /\ next_j[0] = 1

C17_Witness ==
  /\ pc = "loop" /\ NumSpecies = 4
  /\ BagCardinality(edges) = 6
  /\ heap = BagToSet(edges)
  /\ \A i \in SpeciesIds : next_j[i] = 4

\* ------------------------------------------------------------------- C18
\* The element reached from x by following at most k parent links.
RECURSIVE climb(_, _, _)
climb(p, x, k) ==
  IF k = 0 \/ p[x] < 0 \/ p[x] \notin DOMAIN p THEN x
  ELSE climb(p, p[x], k - 1)

\* Following the links from x ends at a root within n - 1 steps (no cycle).
reaches_root(p, x) == p[climb(p, x, vec_len(p) - 1)] < 0
members(p, r) == {y \in DOMAIN p : climb(p, y, vec_len(p) - 1) = r}

\* C18: UnionFind::new(n) makes every element its own root with parent -1;
\* after any sequence of find and union calls every non-root's parent is a
\* valid index, the parent links from every element reach a root without a
\* cycle, and every root r stores minus the number of elements whose find
\* is r.
C18_Representation ==
  /\ last.op = "new" =>
       \A x \in DOMAIN parent : parent[x] = -1 /\ find(parent, x).root = x
  /\ \A x \in DOMAIN parent :
       /\ parent[x] >= 0 => parent[x] \in DOMAIN parent /\ parent[x] # x
       /\ reaches_root(parent, x)
  /\ \A r \in DOMAIN parent :
       parent[r] < 0 =>
         /\ -parent[r] = Cardinality(members(parent, r))
         /\ members(parent, r) = {y \in DOMAIN parent : find(parent, y).root = r}

\* A set of four elements with a chain of two links, after find and union calls.
C18_Witness ==
  /\ pc = "uf" /\ last.op = "find"
  /\ \E r, x, y \in DOMAIN parent :
       /\ parent[r] = -4 /\ parent[x] = r /\ parent[y] = x

\* ------------------------------------------------------------------- C19
\* The root of x and the number of elements of its set, by walking the links.
root_of(p, x) == climb(p, x, vec_len(p) - 1)
set_size(p, x) == Cardinality(members(p, root_of(p, x)))

\* C19: when union(a, b) merges two distinct sets, the root of the set with
\* fewer elements becomes a child of the root of the set with more elements
\* (b's root under a's root when the sizes are equal), and the surviving root
\* stores the sum of the two sizes.
C19_UnionBySize ==
  last.op = "union" /\ last.ret = TRUE =>
    LET ra == root_of(last.pre, last.a)
        rb == root_of(last.pre, last.b)
        na == set_size(last.pre, last.a)
        nb == set_size(last.pre, last.b)
        winner == IF na >= nb THEN ra ELSE rb
        loser == IF na >= nb THEN rb ELSE ra
    IN  /\ ra # rb
        /\ parent[loser] = winner
        /\ parent[winner] = -(na + nb)
        /\ last.pre[ra] = -na /\ last.pre[rb] = -nb

\* union(a, b) with a alone and b the non-root of a set of two: a goes under
\* b's root.
C19_Witness ==
  /\ last.op = "union" /\ last.ret = TRUE
  /\ set_size(last.pre, last.a) = 1
  /\ set_size(last.pre, last.b) = 2
  /\ root_of(last.pre, last.b) # last.b
  /\ parent[last.a] = root_of(last.pre, last.b)

\* ------------------------------------------------------------------- C20
\* The elements on the parent chain from x to its root, the root excluded.
RECURSIVE chain(_, _)
chain(p, x) == IF p[x] < 0 THEN {} ELSE {x} \cup chain(p, p[x])

\* C20: after find(x) has returned the root r, every element that was on the
\* parent chain from x to r before the call, except r, has r as its parent,
\* and the parent entry of every other element is what it was.
C20_PathCompression ==
  last.op = "find" =>
    LET r == last.root
        visited == chain(last.pre, last.a)
    IN  /\ r = root_of(last.pre, last.a)
        /\ r \notin visited
        /\ \A y \in visited : parent[y] = r
        /\ \A y \in DOMAIN parent \ visited : parent[y] = last.pre[y]

\* find(x) with x two links below its root: the link of x is rewritten.
C20_Witness ==
  /\ last.op = "find"
  /\ Cardinality(chain(last.pre, last.a)) = 2
  /\ last.pre[last.a] # last.root
  /\ parent[last.a] = last.root

\* ------------------------------------------------------------------- C21
\* The greatest alignment score of a pair with one species in L and one in R.
cross_scores(L, R) ==
  {needleman_wunsch(part(species).genomes[x], part(species).genomes[y]) :
     <<x, y>> \in L \X R}
max_cross(L, R) ==
  CHOOSE m \in cross_scores(L, R) : \A o \in cross_scores(L, R) : o <= m

\* The trees of the shape and similarities of t whose leaves are the species
\* of S, each once, in place of their names.
RECURSIVE labellings(_, _)
labellings(t, S) ==
  IF t.kind = "Leaf"
  THEN {Leaf(s) : s \in {u \in S : S = {u} /\ species[u + 1].name = t.val}}
  ELSE UNION {{Node(l, r, t.similarity) :
                 l \in labellings(t.left, L), r \in labellings(t.right, S \ L)} :
               L \in {M \in SUBSET S : Cardinality(M) = num_leaves(t.left)}}

RECURSIVE leaf_ids(_)
leaf_ids(t) ==
  IF t.kind = "Leaf" THEN {t.val} ELSE leaf_ids(t.left) \cup leaf_ids(t.right)

\* Every internal node of t carries the greatest score between its subtrees.
RECURSIVE single_linkage(_)
single_linkage(t) ==
  \/ t.kind = "Leaf"
  \/ /\ t.similarity = max_cross(leaf_ids(t.left), leaf_ids(t.right))
     /\ single_linkage(t.left)
     /\ single_linkage(t.right)

\* The returned tree has the single-linkage property with the species at its
\* leaves.
C21_Trees ==
  Returned =>
    \E t \in labellings(result.val, SpeciesIds) : single_linkage(t)

\* An iteration that appends a cluster: the new node joins the trees of the two
\* clusters of the popped edge and carries the greatest score between them.
C21_Merge ==
  pc = "loop" /\ vec_len(clusters') = vec_len(clusters) + 1 =>
    \E e \in heap :
      /\ heap' = heap \ {e}
      /\ LET new == clusters'[vec_len(clusters)]
         IN  /\ new.left = clusters[get(e.species_a)]
             /\ new.right = clusters[get(e.species_b)]
             /\ new.similarity = e.similarity
             /\ new.similarity =
                  max_cross(cluster_mates(e.species_a), cluster_mates(e.species_b))

\* C21: the similarity of every internal node of the tree returned by cluster
\* is the maximum, over the pairs with one leaf in its left subtree and one
\* in its right subtree, of the alignment score of the pair.
C21_SingleLinkage == [](C21_Trees) /\ [][C21_Merge]_vars

\* Four species returned as two pairs, the scores between the pairs not all equal.
C21_Witness ==
  /\ Returned /\ NumSpecies = 4
  /\ num_leaves(result.val.left) = 2
  /\ \E t \in labellings(result.val, SpeciesIds) :
       /\ single_linkage(t)
       /\ Cardinality(cross_scores(leaf_ids(t.left), leaf_ids(t.right))) >= 2

\* ------------------------------------------------------------------- C22
\* C22: between the iterations of a clustering run every cluster_map entry is
\* the root of a one-element set of the disjoint-set (parent value -1), so
\* get(s) returns cluster_map[s] and leaves the parent array as it is; no set
\* of the disjoint-set has more than 2 elements; and an edge the heap can pop
\* next whose endpoints are in the same cluster leaves clusters, cluster_map
\* and the parent array unchanged.
C22_SingletonEntries ==
  Running /\ NumSpecies >= 1 =>
    /\ \A s \in SpeciesIds :
         /\ parent[cluster_map[s]] = -1
         /\ members(parent, cluster_map[s]) = {cluster_map[s]}
         /\ ClusterManager_get(manager, s).root = cluster_map[s]
         /\ ClusterManager_get(manager, s).parent = parent
    /\ \A x \in DOMAIN parent :
         /\ reaches_root(parent, x)
         /\ parent[x] < 0 =>
              -parent[x] <= 2 /\ Cardinality(members(parent, x)) <= 2
    /\ \A e \in heap_pop(heap) :
         get(e.species_a) = get(e.species_b) => loop_body(manager, e) = manager

\* Three merges done: sets of two elements exist, and an edge still in the heap
\* joins two species of one cluster.
C22_Witness ==
  /\ pc = "loop" /\ NumSpecies = 4 /\ merges = 3
  /\ \E x \in DOMAIN parent : parent[x] = -2
  /\ \E e \in heap_pop(heap) : get(e.species_a) = get(e.species_b)

====
